---- MODULE Spec2Model ----
(***************************************************************************)
(* Model of src/src/app.js: the key handlers of the typing game            *)
(* (validKeycode, handleKeypress, handleKeyup, testCmd), the phase setter  *)
(* toState with its state-change hook, and the per-frame render            *)
(* (updateConsole).                                                        *)
(*                                                                         *)
(* states.js, keycodes.js, cmds.js and the module that registers the       *)
(* onStateChange hook are imported by app.js but are not part of the       *)
(* source at hand; what the model needs of them is taken from spec.md and  *)
(* marked as such where it is defined.                                     *)
(***************************************************************************)
EXTENDS Integers, Sequences, FiniteSets, TLC

VARIABLES
    state,          \* app.state                      (data, l.51)
    titleState,     \* app.titleState                 (set in toState, l.73)
    cmd,            \* app.cmd, a sequence of characters (data, l.53)
    selectionStart, \* textarea.selectionStart        (read at l.96)
    timer,          \* app.timer                      (data, l.57)
    allowTyping,    \* app.allowTyping                (data, l.58)
    score,          \* app.score                      (data, l.59)
    count,          \* app.count                      (data, l.60-67)
    ctrl_down,      \* module-level ctrl_down         (l.12)
    hook,           \* which onStateChange is installed: "default" (l.152-158) or "registered"
    playEnters,     \* history: Enter key-downs that reached handleKeypress while state = play
    tickQueue,      \* callbacks given to $nextTick that have not run yet (l.121, l.146, l.215)
    entered,        \* history: what each Enter evaluated with typing enabled produced
    delivered,      \* history: what each onResult call received and saw
    golden,         \* pickGoldenCommands: its dictionary, its configuration and what it returned
    last            \* history: the operation that ran last and what it decided

vars == <<state, titleState, cmd, selectionStart, timer, allowTyping, score,
          count, ctrl_down, hook, playEnters, tickQueue, entered, delivered,
          golden, last>>

----------------------------------------------------------------------------
(* Bounds of the model *)

MaxLen == 2          \* longest buffer the player types
MaxEnters == 1       \* Enter key-downs per run that are evaluated as commands
RoundFrames == 1     \* countdown frames of one round
MaxKeyCode == 255    \* key codes 0..MaxKeyCode are given to the filter
MaxBuf == 3          \* longest buffer handed to testCmd in MatchSpec
MaxResults == 2      \* evaluated Enters per run where callbacks are deferred
MaxQueue == 3        \* callbacks waiting for the next tick
MaxGoldenLength == 2 \* largest GOLDEN_CMDS_MAX_LENGTH tried
MaxPerLang == 2      \* largest GOLDEN_CMDS_PER_LANG tried

----------------------------------------------------------------------------
(* keycodes.js and states.js (imported at l.1-2, not in the source at hand) *)

kcBackspace == 8
kcEnter == 13
kcCtrl == 17
kcLeftArrow == 37
kcRightArrow == 39
numsStart == 48
numsEnd == 57
alphaStart == 65
alphaEnd == 90
punctStart == 186
punctEnd == 222

STATES == {"loading", "title", "play", "end"}

LANGS == {"js", "bash", "html", "py"}

(* cmds.js: the dictionary, language -> commands (a small instance) *)
cmdsByLang ==
    [bash |-> {<<"a">>, <<"a", "b">>},
     js   |-> {<<"a", "b">>},
     py   |-> {<<"b">>},
     html |-> {<<"b", "a">>}]

NoChar == "undefined"     \* this.cmd[-1]
NL == "\n"
Whitespace == {" ", "\t", NL}

(* the keys the player presses in the session model, and the character the *)
(* text area inserts for a printable one                                   *)
SessionKeys == {kcBackspace, kcEnter, kcCtrl, 65, 66, 112}
charOf(kc) == IF kc = 65 THEN "a" ELSE "b"
UpKeys == {kcCtrl, 65}
\* the session keys and the keys that move the cursor
EditKeys == SessionKeys \cup {kcLeftArrow, kcRightArrow}
LeftChars == {NoChar, "a", NL}

----------------------------------------------------------------------------
(* validKeycode, l.20-46 *)

\* _.inRange(number, start, end): start <= number < end, the bounds swapped
\* when start > end
inRange(n, s, e) ==
    IF s > e THEN (n >= e /\ n < s) ELSE (n >= s /\ n < e)

\* l.24-26: the value of ctrl_down after the update at the top of validKeycode
validKeycodeCtrl(kc, ctrl) == IF kc = kcCtrl THEN TRUE ELSE ctrl

alphanumeric_exclusiveEnd(kc) ==
    \/ inRange(kc, numsStart, numsEnd)
    \/ inRange(kc, alphaStart, alphaEnd)
    \/ inRange(kc, punctStart, punctEnd)

\* l.35-38
alphanumeric(kc) ==
    \/ inRange(kc, numsStart, numsEnd + 1)
    \/ inRange(kc, alphaStart, alphaEnd + 1)
    \/ inRange(kc, punctStart, punctEnd + 1)

valid_other_anyLeft(kc, leftChar) ==
    \/ kc \in {kcEnter, kcRightArrow}
    \/ kc = kcLeftArrow \/ kc = kcBackspace

\* l.40-43
valid_other(kc, leftChar) ==
    \/ kc \in {kcEnter, kcRightArrow}
    \/ (leftChar # NL /\ (kc = kcLeftArrow \/ kc = kcBackspace))

validKeycode_noCtrl(kc, leftChar, ctrl) ==
    alphanumeric(kc) \/ valid_other(kc, leftChar)

\* l.20-46: the value returned, ctrl being ctrl_down before the call
validKeycode(kc, leftChar, ctrl) ==
    IF validKeycodeCtrl(kc, ctrl)
    THEN FALSE
    ELSE alphanumeric(kc) \/ valid_other(kc, leftChar)

----------------------------------------------------------------------------
(* testCmd, l.139-150 *)

RECURSIVE lastLine(_)
\* _(cmd).split("\n").last()
lastLine(buf) ==
    IF buf = <<>> THEN <<>>
    ELSE IF buf[Len(buf)] = NL THEN <<>>
    ELSE Append(lastLine(SubSeq(buf, 1, Len(buf) - 1)), buf[Len(buf)])

RECURSIVE trimLeft(_)
trimLeft(s) ==
    IF s # <<>> /\ s[1] \in Whitespace THEN trimLeft(Tail(s)) ELSE s

RECURSIVE trimRight(_)
trimRight(s) ==
    IF s # <<>> /\ s[Len(s)] \in Whitespace
    THEN trimRight(SubSeq(s, 1, Len(s) - 1)) ELSE s

\* String.prototype.trim
trim(s) == trimRight(trimLeft(s))

\* cmds.find (cmds.js): exact match of the line against every language's list
find(line) ==
    LET langs == {l \in LANGS : line \in cmdsByLang[l]}
    IN  [cmd |-> IF langs = {} THEN <<>> ELSE line, lang |-> langs]

testCmd_wholeBuffer(buf) ==
    LET line == trim(buf)
        m == find(line)
    IN  [cmd |-> line, valid |-> (m.cmd # <<>>), matchedCmd |-> m.cmd, lang |-> m.lang]

\* l.140-145: the result object
testCmd(buf) ==
    LET line == trim(lastLine(buf))
        m == find(line)
    IN  [cmd |-> line, valid |-> (m.cmd # <<>>), matchedCmd |-> m.cmd, lang |-> m.lang]

----------------------------------------------------------------------------
(* data, l.50-68 *)

zeroCount ==
    [js |-> 0, bash |-> 0, html |-> 0, py |-> 0,
     totalValidCharacters |-> 0, totalValidCommands |-> 0]

\* no result object: the operation was not an evaluated Enter
noResult == [cmd |-> <<>>, valid |-> FALSE, matchedCmd |-> <<>>, lang |-> {}]

noOp ==
    [op |-> "init", kc |-> 0, leftChar |-> NoChar, prevented |-> FALSE,
     filter |-> "skipped", from |-> "none", to |-> "none", hookCalls |-> 0,
     seen |-> "none", args |-> <<>>, result |-> noResult]

\* pickGoldenCommands has not been called
noGolden ==
    [cmds |-> [l \in LANGS |-> <<>>], maxLength |-> 0, perLang |-> 0,
     picked |-> [l \in LANGS |-> <<>>]]

Init ==
    /\ state = "loading"
    /\ titleState = "undefined"
    /\ cmd = <<>>
    /\ selectionStart = 0
    /\ timer = 0
    /\ allowTyping = FALSE
    /\ score = 0
    /\ count = zeroCount
    /\ ctrl_down = FALSE
    /\ hook = "default"
    /\ playEnters = 0
    /\ tickQueue = <<>>
    /\ entered = <<>>
    /\ delivered = <<>>
    /\ golden = noGolden
    /\ last = noOp

----------------------------------------------------------------------------
(* toState, l.70-75, and the state-change hook *)

\* l.71
toStateChange_late(cur, s) == [from |-> s, to |-> s]

toStateChange(cur, s) == [from |-> cur, to |-> s]

\* the registered hook (spec.md 4.4): title -> play enables typing and resets
\* score, counters and timer; play -> end disables typing.  The default hook
\* (l.152-158) only logs.
hookSession(h, change, sess) ==
    IF h = "registered" /\ change.from = "title" /\ change.to = "play"
    THEN [allowTyping |-> TRUE, score |-> 0, count |-> zeroCount, timer |-> 0]
    ELSE IF h = "registered" /\ change.from = "play" /\ change.to = "end"
    THEN [sess EXCEPT !.allowTyping = FALSE]
    ELSE sess

session == [allowTyping |-> allowTyping, score |-> score, count |-> count, timer |-> timer]

toState_hookFirst(s) ==
    LET change == toStateChange(state, s)
        after == hookSession(hook, change, session)
    IN  /\ state' = s
        /\ titleState' = (IF s = "title" THEN "true" ELSE "false")
        /\ allowTyping' = after.allowTyping
        /\ score' = after.score
        /\ count' = after.count
        /\ timer' = after.timer
        /\ last' = [noOp EXCEPT !.op = "toState", !.from = change.from,
                                !.to = change.to, !.hookCalls = 1, !.seen = state]
        /\ UNCHANGED <<cmd, selectionStart, ctrl_down, hook, playEnters,
                   tickQueue, entered, delivered, golden>>

toState_noAssign(s) ==
    LET change == toStateChange(state, s)
        after == hookSession(hook, change, session)
    IN  /\ state' = state
        /\ titleState' = (IF s = "title" THEN "true" ELSE "false")
        /\ allowTyping' = after.allowTyping
        /\ score' = after.score
        /\ count' = after.count
        /\ timer' = after.timer
        /\ last' = [noOp EXCEPT !.op = "toState", !.from = change.from,
                                !.to = change.to, !.hookCalls = 1, !.seen = state]
        /\ UNCHANGED <<cmd, selectionStart, ctrl_down, hook, playEnters,
                   tickQueue, entered, delivered, golden>>

toState(s) ==
    LET change == toStateChange(state, s)               \* l.71
        after == hookSession(hook, change, session)     \* l.74
    IN  /\ state' = s                                   \* l.72
        /\ titleState' = (IF s = "title" THEN "true" ELSE "false")   \* l.73
        /\ allowTyping' = after.allowTyping
        /\ score' = after.score
        /\ count' = after.count
        /\ timer' = after.timer
        /\ last' = [noOp EXCEPT !.op = "toState", !.from = change.from,
                                !.to = change.to, !.hookCalls = 1, !.seen = s]
        /\ UNCHANGED <<cmd, selectionStart, ctrl_down, hook, playEnters,
                   tickQueue, entered, delivered, golden>>

\* app.onStateChange = handler, done once by the module that drives the game
registerHook ==
    /\ hook = "default"
    /\ hook' = "registered"
    /\ last' = [noOp EXCEPT !.op = "registerHook"]
    /\ UNCHANGED <<state, titleState, cmd, selectionStart, timer, allowTyping,
                   score, count, ctrl_down, playEnters,
                   tickQueue, entered, delivered, golden>>

\* the frame-driven countdown of a round (spec.md 4.4)
countdown ==
    /\ hook = "registered"
    /\ state = "play"
    /\ timer < RoundFrames
    /\ timer' = timer + 1
    /\ last' = [noOp EXCEPT !.op = "countdown"]
    /\ UNCHANGED <<state, titleState, cmd, selectionStart, allowTyping, score,
                   count, ctrl_down, hook, playEnters,
                   tickQueue, entered, delivered, golden>>

----------------------------------------------------------------------------
(* handleKeypress, l.83-133, and handleKeyup, l.134-138 *)

\* l.96: this.cmd[textarea.selectionStart - 1]
leftCharOf(buf, cur) == IF cur >= 1 /\ cur <= Len(buf) THEN buf[cur] ELSE NoChar

insertAt(buf, cur, ch) ==
    SubSeq(buf, 1, cur) \o <<ch>> \o SubSeq(buf, cur + 1, Len(buf))

removeAt(buf, cur) ==
    SubSeq(buf, 1, cur - 1) \o SubSeq(buf, cur + 1, Len(buf))

\* what the text area does with a key-down that was not prevented: the new
\* buffer and cursor (collapsed selection)
defaultAction(kc, buf, cur) ==
    IF alphanumeric(kc) THEN [cmd |-> insertAt(buf, cur, charOf(kc)), sel |-> cur + 1]
    ELSE IF kc = kcEnter THEN [cmd |-> insertAt(buf, cur, NL), sel |-> cur + 1]
    ELSE IF kc = kcBackspace /\ cur > 0 THEN [cmd |-> removeAt(buf, cur), sel |-> cur - 1]
    ELSE IF kc = kcLeftArrow /\ cur > 0 THEN [cmd |-> buf, sel |-> cur - 1]
    ELSE IF kc = kcRightArrow /\ cur < Len(buf) THEN [cmd |-> buf, sel |-> cur + 1]
    ELSE [cmd |-> buf, sel |-> cur]

\* l.110
scoreAfter_flat(sc, result) ==
    IF result.valid THEN sc + 1000 ELSE sc

scoreAfter_penalty(sc, result) ==
    IF result.valid THEN sc + (10 + Len(result.cmd)) * 100 ELSE sc - 100

scoreAfter(sc, result) ==
    IF result.valid THEN sc + (10 + Len(result.cmd)) * 100 ELSE sc

countAfter_perLanguage(c, result) ==
    LET perLang == [k \in DOMAIN c |->
                      IF k \in result.lang THEN c[k] + 1 ELSE c[k]]
    IN  IF result.valid
        THEN [perLang EXCEPT !.totalValidCommands = @ + Cardinality(result.lang),
                             !.totalValidCharacters = @ + Len(result.cmd)]
        ELSE perLang

\* l.106, l.113-114
countAfter(c, result) ==
    LET perLang == [k \in DOMAIN c |->
                      IF k \in result.lang THEN c[k] + 1 ELSE c[k]]
    IN  IF result.valid
        THEN [perLang EXCEPT !.totalValidCommands = @ + 1,
                             !.totalValidCharacters = @ + Len(result.cmd)]
        ELSE perLang

keypressSuppressed_default(kc) ==
    LET da == defaultAction(kc, cmd, selectionStart)
    IN  /\ cmd' = da.cmd
        /\ selectionStart' = da.sel
        /\ last' = [noOp EXCEPT !.op = "keydown", !.kc = kc, !.prevented = FALSE]
        /\ UNCHANGED <<score, count, ctrl_down>>

\* l.87-90
keypressSuppressed(kc) ==
    /\ last' = [noOp EXCEPT !.op = "keydown", !.kc = kc, !.prevented = TRUE]
    /\ UNCHANGED <<cmd, selectionStart, score, count, ctrl_down>>

keypressEnter_scoreOnly(kc) ==
    LET result == testCmd(cmd)
    IN  /\ count' = count
        /\ score' = scoreAfter(score, result)
        /\ last' = [noOp EXCEPT !.op = "keydown", !.kc = kc, !.prevented = TRUE,
                                !.leftChar = leftCharOf(cmd, selectionStart),
                                !.result = result]
        /\ UNCHANGED <<cmd, selectionStart, ctrl_down>>

\* l.103-127
keypressEnter(kc) ==
    LET result == testCmd(cmd)
    IN  /\ count' = countAfter(count, result)
        /\ score' = scoreAfter(score, result)
        /\ last' = [noOp EXCEPT !.op = "keydown", !.kc = kc, !.prevented = TRUE,
                                !.leftChar = leftCharOf(cmd, selectionStart),
                                !.result = result]
        /\ UNCHANGED <<cmd, selectionStart, ctrl_down>>

\* l.129-132
keypressFilter(kc) ==
    LET leftChar == leftCharOf(cmd, selectionStart)
        ok == validKeycode(kc, leftChar, ctrl_down)
        da == defaultAction(kc, cmd, selectionStart)
    IN  /\ ctrl_down' = validKeycodeCtrl(kc, ctrl_down)
        /\ cmd' = IF ok THEN da.cmd ELSE cmd
        /\ selectionStart' = IF ok THEN da.sel ELSE selectionStart
        /\ last' = [noOp EXCEPT !.op = "keydown", !.kc = kc, !.prevented = ~ok,
                                !.leftChar = leftChar,
                                !.filter = IF ok THEN "accepted" ELSE "rejected"]
        /\ UNCHANGED <<score, count>>

handleKeypress_noGate(kc) ==
    IF kc = kcEnter THEN keypressEnter(kc) ELSE keypressFilter(kc)

\* l.83-133
handleKeypress(kc) ==
    IF ~allowTyping THEN keypressSuppressed(kc)
    ELSE IF kc = kcEnter THEN keypressEnter(kc)
    ELSE keypressFilter(kc)

\* a key-down event delivered to handleKeypress
keydown(kc) ==
    /\ (kc = kcEnter /\ state = "play") => playEnters < MaxEnters
    /\ (kc = kcEnter /\ allowTyping) => count.totalValidCommands < MaxEnters
    /\ alphanumeric(kc) => Len(cmd) < MaxLen
    /\ handleKeypress(kc)
    /\ playEnters' = IF kc = kcEnter /\ state = "play" THEN playEnters + 1 ELSE playEnters
    /\ UNCHANGED <<state, titleState, timer, allowTyping, hook,
                   tickQueue, entered, delivered, golden>>

\* l.134-138
handleKeyup(kc) ==
    /\ ctrl_down' = IF kc = kcCtrl THEN FALSE ELSE ctrl_down
    /\ last' = [noOp EXCEPT !.op = "keyup", !.kc = kc]
    /\ UNCHANGED <<state, titleState, cmd, selectionStart, timer, allowTyping,
                   score, count, hook, playEnters,
                   tickQueue, entered, delivered, golden>>

----------------------------------------------------------------------------
(* updateConsole, l.213-223 *)

consoleArgs_always == <<cmd, score, timer>>

\* l.216-220: the arguments collected for consoleCanvas.write
consoleArgs == IF state = "play" THEN <<cmd, score, timer>> ELSE <<cmd>>

\* one animation frame with its deferred callback run at once
updateConsole ==
    /\ last' = [noOp EXCEPT !.op = "frame", !.args = consoleArgs]
    /\ UNCHANGED <<state, titleState, cmd, selectionStart, timer, allowTyping,
                   score, count, ctrl_down, hook, playEnters,
                   tickQueue, entered, delivered, golden>>

----------------------------------------------------------------------------
(* The session: any event in any order *)

Next ==
    \/ \E s \in STATES : toState(s)
    \/ registerHook
    \/ countdown
    \/ \E kc \in SessionKeys : keydown(kc)
    \/ \E kc \in UpKeys : handleKeyup(kc)
    \/ updateConsole

Spec == Init /\ [][Next]_vars

----------------------------------------------------------------------------
(* The keystroke filter on its own: validKeycode (l.20-46) and handleKeyup *)
(* (l.134-138) applied to every key code and every kind of left character  *)

filterKeydown(kc, leftChar) ==
    LET ok == validKeycode(kc, leftChar, ctrl_down)
    IN  /\ ctrl_down' = validKeycodeCtrl(kc, ctrl_down)
        /\ last' = [noOp EXCEPT !.op = "filter", !.kc = kc, !.leftChar = leftChar,
                                !.prevented = ~ok,
                                !.filter = IF ok THEN "accepted" ELSE "rejected"]
        /\ UNCHANGED <<state, titleState, cmd, selectionStart, timer, allowTyping,
                       score, count, hook, playEnters,
                   tickQueue, entered, delivered, golden>>

FilterNext ==
    \/ \E kc \in 0..MaxKeyCode : \E leftChar \in LeftChars : filterKeydown(kc, leftChar)
    \/ \E kc \in 0..MaxKeyCode : handleKeyup(kc)

FilterSpec == Init /\ [][FilterNext]_vars

----------------------------------------------------------------------------
(* Deferred callbacks.  Spec above folds each $nextTick callback into the   *)
(* step that queued it; here they wait in tickQueue and run later, first in *)
(* first out, while other events may come in between.                       *)

tick(cb, result) == [cb |-> cb, result |-> result]

keypressTicks_always(kc) ==
    IF kc = kcEnter
    THEN LET result == testCmd(cmd)
         IN  <<tick("onResult", result)>>
             \o (IF Len(result.cmd) # 0 THEN <<tick("refocus", noResult)>> ELSE <<>>)
    ELSE <<>>

\* the callbacks handleKeypress hands to $nextTick: onResult(result) inside
\* testCmd (l.146-148), then the blur/focus of l.117-125
keypressTicks(kc) ==
    IF allowTyping /\ kc = kcEnter
    THEN LET result == testCmd(cmd)
         IN  <<tick("onResult", result)>>
             \o (IF Len(result.cmd) # 0 THEN <<tick("refocus", noResult)>> ELSE <<>>)
    ELSE <<>>

\* a key-down event delivered to handleKeypress, its callbacks deferred
keydownTick(kc) ==
    /\ (kc = kcEnter /\ allowTyping) => Len(entered) < MaxResults
    /\ Len(tickQueue) + Len(keypressTicks(kc)) <= MaxQueue
    /\ alphanumeric(kc) => Len(cmd) < MaxLen
    /\ handleKeypress(kc)
    /\ tickQueue' = tickQueue \o keypressTicks(kc)
    /\ entered' = IF kc = kcEnter /\ allowTyping
                  THEN Append(entered, [result |-> last'.result, score |-> score'])
                  ELSE entered
    /\ playEnters' = IF kc = kcEnter /\ state = "play" THEN playEnters + 1 ELSE playEnters
    /\ UNCHANGED <<state, titleState, timer, allowTyping, hook, delivered, golden>>

\* updateConsole, l.213-215: the frame callback defers the render
frameTick ==
    /\ Len(tickQueue) < MaxQueue
    /\ tickQueue' = Append(tickQueue, tick("render", noResult))
    /\ last' = [noOp EXCEPT !.op = "frameTick"]
    /\ UNCHANGED <<state, titleState, cmd, selectionStart, timer, allowTyping,
                   score, count, ctrl_down, hook, playEnters, entered, delivered,
                   golden>>

callTestCmd_scores ==
    LET result == testCmd(cmd)
    IN  /\ Len(tickQueue) < MaxQueue
        /\ Len(delivered) + Len(tickQueue) < MaxResults
        /\ tickQueue' = Append(tickQueue, tick("onResult", result))
        /\ last' = [noOp EXCEPT !.op = "testCmd", !.result = result]
        /\ score' = scoreAfter(score, result)
        /\ UNCHANGED <<state, titleState, cmd, selectionStart, timer, allowTyping,
                       count, ctrl_down, hook, playEnters, entered, delivered,
                       golden>>

\* a call of testCmd on its own, l.139-150
callTestCmd ==
    LET result == testCmd(cmd)
    IN  /\ Len(tickQueue) < MaxQueue
        /\ Len(delivered) + Len(tickQueue) < MaxResults
        /\ tickQueue' = Append(tickQueue, tick("onResult", result))
        /\ last' = [noOp EXCEPT !.op = "testCmd", !.result = result]
        /\ UNCHANGED <<state, titleState, cmd, selectionStart, timer, allowTyping,
                       score, count, ctrl_down, hook, playEnters, entered,
                       delivered, golden>>

\* the next tick: the oldest callback runs.  onResult is _.noop (l.151), the
\* render callback is l.215-222, the refocus callback l.121-124
runTick ==
    /\ tickQueue # <<>>
    /\ LET t == Head(tickQueue)
       IN  /\ tickQueue' = Tail(tickQueue)
           /\ delivered' = IF t.cb = "onResult"
                           THEN Append(delivered, [result |-> t.result, score |-> score])
                           ELSE delivered
           /\ last' = [noOp EXCEPT !.op = t.cb, !.result = t.result,
                                   !.args = IF t.cb = "render" THEN consoleArgs ELSE <<>>]
    /\ UNCHANGED <<state, titleState, cmd, selectionStart, timer, allowTyping,
                   score, count, ctrl_down, hook, playEnters, entered, golden>>

----------------------------------------------------------------------------
(* testCmd and the Enter branch on their own, over every short buffer *)

MatchChars == {"a", "b", " ", NL}

RECURSIVE buffers(_, _)
\* the sequences over chars of length n or less
buffers(chars, n) ==
    IF n = 0 THEN {<<>>}
    ELSE LET shorter == buffers(chars, n - 1)
         IN  shorter \cup {Append(b, c) : b \in shorter, c \in chars}

\* a round in progress: the hook registered, phase play, typing enabled
playing ==
    /\ state = "play"
    /\ titleState = "false"
    /\ hook = "registered"
    /\ allowTyping = TRUE
    /\ timer = 0
    /\ score = 0
    /\ count = zeroCount
    /\ ctrl_down = FALSE
    /\ playEnters = 0
    /\ tickQueue = <<>>
    /\ entered = <<>>
    /\ delivered = <<>>
    /\ golden = noGolden
    /\ last = noOp

MatchInit ==
    /\ playing
    /\ cmd \in buffers(MatchChars, MaxBuf)
    /\ selectionStart \in {0, Len(cmd)}

MatchNext ==
    \/ \E kc \in {kcEnter} : keydownTick(kc)
    \/ callTestCmd
    \/ runTick

MatchSpec == MatchInit /\ [][MatchNext]_vars

----------------------------------------------------------------------------
(* A round with deferred callbacks: keys, frames, ticks and the end of the *)
(* round in any order                                                       *)

TickKeys == {kcEnter, 65, 66}

TickInit ==
    /\ playing
    /\ cmd = <<>>
    /\ selectionStart = 0

TickNext ==
    \/ \E kc \in TickKeys : keydownTick(kc)
    \/ frameTick
    \/ runTick
    \/ \E s \in {"end"} : toState(s)

TickSpec == TickInit /\ [][TickNext]_vars

----------------------------------------------------------------------------
(* Editing a buffer that already holds entered lines: the keyboard alone,  *)
(* the cursor collapsed and on the last line                                *)

EditChars == {"a", "b", NL}

\* the position of the last newline of buf, 0 when it has none
lastNewline(buf) ==
    LET at == {i \in 1..Len(buf) : buf[i] = NL}
    IN  IF at = {} THEN 0 ELSE CHOOSE i \in at : \A j \in at : j <= i

EditInit ==
    /\ playing
    /\ cmd \in buffers(EditChars, MaxBuf)
    /\ selectionStart \in lastNewline(cmd)..Len(cmd)

EditNext ==
    \/ \E kc \in EditKeys : keydown(kc)
    \/ \E kc \in UpKeys : handleKeyup(kc)

EditSpec == EditInit /\ [][EditNext]_vars

----------------------------------------------------------------------------
(* pickGoldenCommands, l.163-197 *)

\* the command lists a language may have in cmds.js
GoldenLists ==
    { <<>>,
      << <<"a">>, <<"_", "a">>, <<"a", ")">> >>,
      << <<"a", "b">>, <<"b">>, <<"a", "b", "c">> >>,
      << <<"a">>, <<"a">> >> }

startsWith(c, ch) == c # <<>> /\ c[1] = ch
endsWith(c, ch) == c # <<>> /\ c[Len(c)] = ch

positions(list) == [i \in 1..Len(list) |-> i]

filterCmds_keepParens(list, maxLength) ==
    LET byLength == SelectSeq(positions(list), LAMBDA i : Len(list[i]) <= maxLength)
    IN  SelectSeq(byLength, LAMBDA i : ~startsWith(list[i], "_"))

\* l.171-184: the entries that pass the three filters, as their positions in
\* the list, in list order
filterCmds(list, maxLength) ==
    LET byLength == SelectSeq(positions(list), LAMBDA i : Len(list[i]) <= maxLength)
        noUnderscore == SelectSeq(byLength, LAMBDA i : ~startsWith(list[i], "_"))
    IN  SelectSeq(noUnderscore, LAMBDA i : ~endsWith(list[i], ")"))

\* _.sampleSize(array, n): every outcome of drawing min(n, length) elements
\* at distinct indexes, in any order
sampleSize(array, n) ==
    LET k == IF n < Len(array) THEN n ELSE Len(array)
        draws == {d \in [1..k -> 1..Len(array)] :
                     \A i, j \in 1..k : i # j => d[i] # d[j]}
    IN  {[i \in 1..k |-> array[d[i]]] : d \in draws}

\* the entries drawn for one language: position in the list and command
picks(list, maxLength, n) ==
    {[i \in 1..Len(drawn) |-> [at |-> drawn[i], cmd |-> list[drawn[i]]]] :
        drawn \in sampleSize(filterCmds(list, maxLength), n)}

GoldenInit ==
    /\ state = "loading"
    /\ titleState = "undefined"
    /\ cmd = <<>>
    /\ selectionStart = 0
    /\ timer = 0
    /\ allowTyping = FALSE
    /\ score = 0
    /\ count = zeroCount
    /\ ctrl_down = FALSE
    /\ hook = "default"
    /\ playEnters = 0
    /\ tickQueue = <<>>
    /\ entered = <<>>
    /\ delivered = <<>>
    /\ last = noOp
    /\ \E lists \in [LANGS -> GoldenLists] :
       \E maxLength \in 1..MaxGoldenLength :
       \E perLang \in 0..MaxPerLang :
          golden = [noGolden EXCEPT !.cmds = lists, !.maxLength = maxLength,
                                    !.perLang = perLang]

\* l.186-196
pickGoldenCommands ==
    /\ \E bash \in picks(golden.cmds.bash, golden.maxLength, golden.perLang) :
       \E js \in picks(golden.cmds.js, golden.maxLength, golden.perLang) :
       \E py \in picks(golden.cmds.py, golden.maxLength, golden.perLang) :
       \E html \in picks(golden.cmds.html, golden.maxLength, golden.perLang) :
          golden' = [golden EXCEPT
                        !.picked = [bash |-> bash, js |-> js, py |-> py, html |-> html]]
    /\ last' = [noOp EXCEPT !.op = "pickGoldenCommands"]
    /\ UNCHANGED <<state, titleState, cmd, selectionStart, timer, allowTyping,
                   score, count, ctrl_down, hook, playEnters, tickQueue, entered,
                   delivered>>

GoldenNext == pickGoldenCommands

GoldenSpec == GoldenInit /\ [][GoldenNext]_vars

----------------------------------------------------------------------------
(* Properties *)

\* the hook's reset of a round: toState(play) from title with the hook registered
RoundStart ==
    last'.op = "toState" /\ hook = "registered" /\ state = "title" /\ state' = "play"

\* C1: within a session (no round reset in between) no event lowers score or
\* any per-language counter.
C1_Monotone ==
    [][~RoundStart =>
          (score' >= score /\ \A l \in LANGS : count'[l] >= count[l])]_vars

C1_Witness ==
    /\ last.op = "keydown" /\ last.kc = kcEnter
    /\ score > 0 /\ count.bash > 0

\* C2 as stated: totalValidCommands is at most the number of Enter keystrokes
\* processed by handleKeypress while state = play.
C2_Original == count.totalValidCommands <= playEnters

\* C2 as amended: totalValidCommands rises only in an Enter key-down processed
\* while allowTyping is true, by one per such Enter, whatever the phase; so it
\* is at most the number of Enter keystrokes processed while typing was enabled.
C2_Amended ==
    [][count'.totalValidCommands > count.totalValidCommands =>
          /\ last'.op = "keydown" /\ last'.kc = kcEnter
          /\ allowTyping
          /\ count'.totalValidCommands = count.totalValidCommands + 1]_vars

C2_Witness ==
    /\ state = "title" /\ allowTyping
    /\ last.op = "keydown" /\ last.kc = kcEnter
    /\ count.totalValidCommands = 1 /\ playEnters = 0

\* C3: while allowTyping is false every key-down is suppressed (preventDefault)
\* and buffer, score and all counters are unchanged.
C3_Suppressed ==
    [][(last'.op = "keydown" /\ ~allowTyping) =>
          (last'.prevented /\ UNCHANGED <<cmd, selectionStart, score, count>>)]_vars

C3_Witness ==
    /\ ~allowTyping
    /\ last.op = "keydown" /\ last.kc = kcEnter /\ last.prevented
    /\ testCmd(cmd).valid

InRanges(kc) ==
    \/ kc \in numsStart..numsEnd
    \/ kc \in alphaStart..alphaEnd
    \/ kc \in punctStart..punctEnd

\* C4: the flag is updated before the decision for the same key; while it is
\* held every code is rejected (so the control key-down itself is rejected);
\* a key decided while the flag is clear is judged on its own code.
C4_CtrlHeld ==
    [][last'.op = "filter" =>
          /\ ctrl_down' = (ctrl_down \/ last'.kc = kcCtrl)
          /\ ctrl_down' => last'.filter = "rejected"
          /\ (~ctrl_down /\ InRanges(last'.kc)) => last'.filter = "accepted"]_vars

C4_Witness ==
    /\ ctrl_down
    /\ last.op = "filter" /\ last.kc = kcRightArrow /\ last.filter = "rejected"

\* C5 as stated: every control key-down sets the flag and every control
\* key-up clears it, whether or not the event is suppressed.
C5_Original ==
    [][/\ (last'.op = "keydown" /\ last'.kc = kcCtrl) => ctrl_down'
       /\ (last'.op = "keyup" /\ last'.kc = kcCtrl) => ~ctrl_down']_vars

\* C6 as stated: an Enter pressed while the control flag is held changes
\* neither score nor any counter.
C6_Original ==
    [][(last'.op = "keydown" /\ last'.kc = kcEnter /\ ctrl_down) =>
          UNCHANGED <<score, count>>]_vars

\* C7: with the flag not held, validKeycode accepts exactly the codes of the
\* three closed ranges, enter, right-arrow, and left-arrow or backspace when
\* leftChar is not a newline.
C7_FilterTable ==
    (last.op = "filter" /\ ~ctrl_down) =>
        ((last.filter = "accepted") <=>
            \/ InRanges(last.kc)
            \/ last.kc = kcEnter \/ last.kc = kcRightArrow
            \/ (last.kc \in {kcLeftArrow, kcBackspace} /\ last.leftChar # NL))

C7_Witness ==
    /\ ~ctrl_down
    /\ last.op = "filter" /\ last.kc = kcBackspace /\ last.leftChar = NL
    /\ last.filter = "rejected"

\* C8 as stated: toState moves the phase only title -> play and play -> end,
\* and never end -> end.
C8_Original ==
    [][last'.op = "toState" =>
          /\ state = "title" => state' \in {"title", "play"}
          /\ state = "play" => state' \in {"play", "end"}
          /\ last'.from = "end" => last'.to # "end"]_vars

\* C8 as amended: the phase changes only in toState, and toState(s) sets it
\* to s from every phase; no edge is enforced.
C8_Amended ==
    [][/\ state' # state => last'.op = "toState"
       /\ last'.op = "toState" => (last'.from = state /\ state' = last'.to)]_vars

C8_Witness ==
    last.op = "toState" /\ last.from = "title" /\ last.to = "end" /\ state = "end"

C10_Hook ==
    [][last'.op = "toState" =>
          /\ last'.hookCalls = 1
          /\ last'.from = state /\ last'.to = state'
          /\ last'.seen = state'
          /\ hook = "default" =>
                UNCHANGED <<allowTyping, score, count, timer, cmd,
                            selectionStart, ctrl_down>>]_vars

C10_Witness ==
    /\ hook = "default"
    /\ last.op = "toState" /\ last.from = "title" /\ last.to = "play"
    /\ last.seen = "play" /\ state = "play" /\ ~allowTyping

\* C11 as stated: an Enter evaluated with typing enabled is prevented and the
\* handler appends the line break after the typed text, so the text is kept
\* whole and the trailing line of the buffer is empty afterwards.
C11_Original ==
    [][(last'.op = "keydown" /\ last'.kc = kcEnter /\ allowTyping) =>
          /\ last'.prevented
          /\ SubSeq(cmd', 1, Len(cmd)) = cmd
          /\ lastLine(cmd') = <<>>]_vars

AllWhite(buf, from, to) == \A j \in from..to : buf[j] \in Whitespace

\* line is the part of buf after its last newline without the whitespace at
\* both ends
IsTrimmedLastLine(buf, line) ==
    \E i \in 0..Len(buf) :
        /\ i = 0 \/ buf[i] = NL
        /\ \A j \in (i + 1)..Len(buf) : buf[j] # NL
        /\ \E a \in i..Len(buf) : \E b \in a..Len(buf) :
              /\ line = SubSeq(buf, a + 1, b)
              /\ AllWhite(buf, i + 1, a)
              /\ AllWhite(buf, b + 1, Len(buf))
              /\ line # <<>> => (line[1] \notin Whitespace /\ line[Len(line)] \notin Whitespace)

\* C12: on Enter the matcher gets exactly the trimmed segment after the last
\* newline; the result is valid only when that whole string is a dictionary
\* entry, with exactly the languages listing it; an empty line is not valid,
\* has no language and leaves score and counters unchanged.
C12_TrailingLine ==
    [][(last'.op = "keydown" /\ last'.kc = kcEnter /\ allowTyping) =>
          LET r == last'.result
          IN  /\ IsTrimmedLastLine(cmd, r.cmd)
              /\ r.lang = {l \in LANGS : r.cmd \in cmdsByLang[l]}
              /\ r.valid <=> (\E l \in LANGS : r.cmd \in cmdsByLang[l])
              /\ r.cmd = <<>> =>
                    (~r.valid /\ r.lang = {} /\ UNCHANGED <<score, count>>)]_vars

C12_Witness ==
    /\ last.op = "keydown" /\ last.kc = kcEnter
    /\ cmd = <<"b", NL, " ">>
    /\ last.result.cmd = <<>> /\ ~last.result.valid
    /\ score = 0 /\ count = zeroCount

\* C14: a call of testCmd changes neither score, nor any counter, nor the
\* buffer, nor the phase.
C14_TestCmdPure ==
    [][last'.op = "testCmd" =>
          UNCHANGED <<score, count, cmd, selectionStart, state, allowTyping>>]_vars

C14_Witness ==
    /\ last.op = "testCmd" /\ last.result.valid
    /\ score = 0 /\ count = zeroCount

\* C13: an Enter on a line listed under k >= 1 languages adds one to each of
\* those k counters, one to totalValidCommands, the line's length to
\* totalValidCharacters and (10 + length) * 100 to score; the other language
\* counters stay.
C13_MultiLanguage ==
    [][(last'.op = "keydown" /\ last'.kc = kcEnter /\ allowTyping) =>
          LET line == last'.result.cmd
              langs == {l \in LANGS : line \in cmdsByLang[l]}
          IN  langs # {} =>
                /\ \A l \in LANGS :
                      count'[l] = count[l] + (IF l \in langs THEN 1 ELSE 0)
                /\ count'.totalValidCommands = count.totalValidCommands + 1
                /\ count'.totalValidCharacters = count.totalValidCharacters + Len(line)
                /\ score' = score + (10 + Len(line)) * 100]_vars

C13_Witness ==
    /\ last.op = "keydown" /\ last.kc = kcEnter
    /\ last.result.lang = {"bash", "js"}
    /\ count.bash = 1 /\ count.js = 1 /\ count.py = 0 /\ count.html = 0
    /\ count.totalValidCommands = 1 /\ count.totalValidCharacters = 2
    /\ score = 1200

\* C17 as stated: every frame, in every phase, the render sink gets the
\* triple (text, score, timer).
C17_Original ==
    last.op = "frame" => last.args = <<cmd, score, timer>>

\* C17 as amended: every frame the render sink gets the text; score and timer
\* are passed with it only while the phase is play.
C17_Amended ==
    last.op = "frame" =>
        last.args = (IF state = "play" THEN <<cmd, score, timer>> ELSE <<cmd>>)

C17_Witness ==
    /\ last.op = "frame" /\ state = "end"
    /\ score > 0 /\ last.args = <<cmd>>

\* C18: score = 1000 * totalValidCommands + 100 * totalValidCharacters, and
\* the four language counters add up to at least totalValidCommands.
C18_ScoreFormula ==
    /\ score = 1000 * count.totalValidCommands + 100 * count.totalValidCharacters
    /\ count.js + count.bash + count.html + count.py >= count.totalValidCommands

C18_Witness ==
    /\ score = 1100
    /\ count.totalValidCommands = 1 /\ count.totalValidCharacters = 1
    /\ count.bash = 1

RECURSIVE GainOf(_)
\* the score earned by a sequence of evaluated Enters
GainOf(log) ==
    IF log = <<>> THEN 0
    ELSE GainOf(Tail(log))
         + (IF log[1].result.valid THEN (10 + Len(log[1].result.cmd)) * 100 ELSE 0)

RECURSIVE CharsOf(_)
CharsOf(log) ==
    IF log = <<>> THEN 0
    ELSE CharsOf(Tail(log))
         + (IF log[1].result.valid THEN Len(log[1].result.cmd) ELSE 0)

\* C16: whenever the render callback runs, score and all counters are those
\* of a whole number of completely processed Enters, and the score it passes
\* on is that score.
C16_NoTornRender ==
    last.op = "render" =>
        /\ score = GainOf(entered)
        /\ count.totalValidCommands =
              Cardinality({i \in 1..Len(entered) : entered[i].result.valid})
        /\ count.totalValidCharacters = CharsOf(entered)
        /\ \A l \in LANGS :
              count[l] = Cardinality({i \in 1..Len(entered) : l \in entered[i].result.lang})
        /\ state = "play" => last.args = <<cmd, score, timer>>

C16_Witness ==
    /\ last.op = "render" /\ state = "play"
    /\ Len(entered) = 1 /\ score = 1100 /\ last.args[2] = 1100

\* the results of the onResult callbacks still waiting, oldest first
QueuedResults ==
    LET waiting == SelectSeq(tickQueue, LAMBDA t : t.cb = "onResult")
    IN  [i \in 1..Len(waiting) |-> waiting[i].result]

\* C20: every Enter evaluated with typing enabled gets exactly one onResult
\* call with its own result, in the order of the Enters, run after the
\* handler's score update; an Enter with typing disabled queues nothing.
C20_OnResult ==
    /\ [](/\ Len(delivered) + Len(QueuedResults) = Len(entered)
          /\ \A i \in 1..Len(delivered) :
                /\ i <= Len(entered)
                /\ delivered[i].result = entered[i].result
                /\ delivered[i].score >= entered[i].score
          /\ \A j \in 1..Len(QueuedResults) :
                /\ Len(delivered) + j <= Len(entered)
                /\ QueuedResults[j] = entered[Len(delivered) + j].result)
    /\ [][(last'.op = "keydown" /\ last'.kc = kcEnter /\ ~allowTyping) =>
             UNCHANGED <<tickQueue, delivered>>]_vars

C20_Witness ==
    /\ Len(delivered) = 2 /\ tickQueue = <<>>
    /\ delivered[1].result.cmd = <<"a">> /\ delivered[2].result.cmd = <<"a", "b">>
    /\ delivered[2].score = 2300

NewlinesOf(buf) == Cardinality({i \in 1..Len(buf) : buf[i] = NL})

\* C19: no key-down crosses or removes a newline: left-arrow and backspace
\* are prevented when the character left of the cursor is a newline, the
\* cursor stays at or after the last newline, the number of newlines does
\* not go down and the lines already entered keep their text.
C19_NoLineCrossing ==
    [][/\ (last'.op = "keydown" /\ last'.kc \in {kcLeftArrow, kcBackspace}
             /\ allowTyping /\ leftCharOf(cmd, selectionStart) = NL)
          => (last'.prevented /\ UNCHANGED <<cmd, selectionStart>>)
       /\ selectionStart' >= lastNewline(cmd')
       /\ NewlinesOf(cmd') >= NewlinesOf(cmd)
       /\ SubSeq(cmd', 1, lastNewline(cmd)) = SubSeq(cmd, 1, lastNewline(cmd))]_vars

C19_Witness ==
    /\ last.op = "keydown" /\ last.kc = kcBackspace /\ last.leftChar = NL
    /\ last.prevented /\ ~ctrl_down
    /\ cmd = <<"a", NL>> /\ selectionStart = 2

\* the positions of a list whose entry is short enough, does not start with
\* an underscore and does not end with a closing parenthesis
Eligible(list, maxLength) ==
    {i \in 1..Len(list) :
        /\ Len(list[i]) <= maxLength
        /\ ~(Len(list[i]) > 0 /\ list[i][1] = "_")
        /\ ~(Len(list[i]) > 0 /\ list[i][Len(list[i])] = ")")}

\* C15: for every language the commands returned are eligible entries of
\* that language's list, drawn at distinct positions, min(sampleSize,
\* number of eligible entries) of them; none when no entry is eligible.
C15_GoldenCommands ==
    last.op = "pickGoldenCommands" =>
        \A l \in LANGS :
            LET list == golden.cmds[l]
                got == golden.picked[l]
                ok == Eligible(list, golden.maxLength)
            IN  /\ \A k \in 1..Len(got) :
                      /\ got[k].at \in ok
                      /\ got[k].cmd = list[got[k].at]
                      /\ Len(got[k].cmd) <= golden.maxLength
                      /\ got[k].cmd[1] # "_"
                      /\ got[k].cmd[Len(got[k].cmd)] # ")"
                /\ \A j, k \in 1..Len(got) : j # k => got[j].at # got[k].at
                /\ Len(got) = (IF golden.perLang < Cardinality(ok)
                               THEN golden.perLang ELSE Cardinality(ok))
                /\ ok = {} => got = <<>>

C15_Witness ==
    /\ last.op = "pickGoldenCommands"
    /\ golden.maxLength = 2 /\ golden.perLang = 2
    /\ golden.cmds.bash = << <<"a">>, <<"_", "a">>, <<"a", ")">> >>
    /\ Len(golden.picked.bash) = 1 /\ golden.picked.bash[1].cmd = <<"a">>
    /\ golden.cmds.js = << <<"a", "b">>, <<"b">>, <<"a", "b", "c">> >>
    /\ Len(golden.picked.js) = 2 /\ golden.picked.js[1].cmd = <<"b">>
    /\ golden.cmds.py = <<>> /\ golden.picked.py = <<>>

====
